---- MODULE Spec2Model ----
(***************************************************************************)
(* Model of generate_map.py: the bungalow listing pipeline (scrape search  *)
(* pages, deduplicate, geocode with two persistent caches, radius filter,  *)
(* reverse lookup, snapshot / new-listings CSV).                           *)
(*                                                                         *)
(* Text is modelled at character level: a Python str is a sequence of      *)
(* one-character strings.  The euro sign is written "EUR" (one character). *)
(***************************************************************************)
EXTENDS Integers, Sequences, FiniteSets, TLC

(***************************************************************************)
(* Characters and the character classes of the regular expressions.        *)
(***************************************************************************)
UpperSeq == <<"A", "B", "C", "D", "E", "F", "G", "H", "I", "J", "K", "L", "M", "N", "O", "P", "Q", "R", "S", "T", "U", "V", "W", "X", "Y", "Z">>

LowerSeq == <<"a", "b", "c", "d", "e", "f", "g", "h", "i", "j", "k", "l", "m", "n", "o", "p", "q", "r", "s", "t", "u", "v", "w", "x", "y", "z">>

IsDigit(c) == c \in {"0", "1", "2", "3", "4", "5", "6", "7", "8", "9"}

IsUpper(c) == \E i \in 1..26 : UpperSeq[i] = c

IsLower(c) == \E i \in 1..26 : LowerSeq[i] = c

IsLetter(c) == IsUpper(c) \/ IsLower(c)

\* \w of the re module
IsWordChar(c) == IsLetter(c) \/ IsDigit(c) \/ c = "_"

\* \s of the re module (the model's texts hold no other white space)
IsSpace(c) == c = " "

\* str.lower() on one character
lower(c) == IF IsUpper(c) THEN LowerSeq[CHOOSE i \in 1..26 : UpperSeq[i] = c] ELSE c


LowerStr(s) == [i \in 1..Len(s) |-> lower(s[i])]


\* s[i:] in Python terms, i counted from 1
Drop(s, i) == SubSeq(s, i, Len(s))

\* s[:n]
Take(s, n) == SubSeq(s, 1, n)

\* the character at position i, "" outside the string
At(s, i) == IF i >= 1 /\ i <= Len(s) THEN s[i] ELSE ""

\* length of the run of white space that starts at position i
RECURSIVE SpaceRun(_, _)
SpaceRun(s, i) == IF i <= Len(s) /\ IsSpace(s[i]) THEN 1 + SpaceRun(s, i + 1) ELSE 0

\* \b between positions i-1 and i
WordBoundary(s, i) == IsWordChar(At(s, i - 1)) # IsWordChar(At(s, i))

\* sub occurs in s at position i
OccursAt(s, sub, i) == /\ i >= 1
                       /\ i + Len(sub) - 1 <= Len(s)
                       /\ SubSeq(s, i, i + Len(sub) - 1) = sub

\* str.find, counted from 1; 0 when absent
Find(s, sub) == IF \E i \in 1..(Len(s) + 1) : OccursAt(s, sub, i)
                THEN CHOOSE i \in 1..(Len(s) + 1) :
                        /\ OccursAt(s, sub, i)
                        /\ \A j \in 1..(i - 1) : ~OccursAt(s, sub, j)
                ELSE 0

\* str.strip()
RECURSIVE LStrip(_)
LStrip(s) == IF s # <<>> /\ IsSpace(Head(s)) THEN LStrip(Tail(s)) ELSE s

RECURSIVE RStrip(_)
RStrip(s) == IF s # <<>> /\ IsSpace(s[Len(s)]) THEN RStrip(Take(s, Len(s) - 1)) ELSE s

Strip(s) == RStrip(LStrip(s))

\* re.sub(r"\s+", " ", s): every run of white space becomes one space
RECURSIVE Collapse(_)
Collapse(s) ==
    IF s = <<>> THEN <<>>
    ELSE IF IsSpace(Head(s)) THEN <<" ">> \o Collapse(Drop(s, 1 + SpaceRun(s, 1)))
    ELSE <<Head(s)>> \o Collapse(Tail(s))

norm(s) == Strip(Collapse(s))

(***************************************************************************)
(* Address parsing.                                                        *)
(***************************************************************************)
\* POSTCODE_RE = \b(\d{4})\s*([A-Z]{2})\b with re.IGNORECASE, tried at position i
PostcodeMatchAt(s, i) ==
    LET p == i + 4 + SpaceRun(s, i + 4)
    IN  /\ WordBoundary(s, i)
        /\ \A d \in 0..3 : IsDigit(At(s, i + d))
        /\ IsLetter(At(s, p))
        /\ IsLetter(At(s, p + 1))
        /\ WordBoundary(s, p + 2)

\* POSTCODE_RE.search: the leftmost match, 0 when there is none
PostcodeSearch(s) ==
    IF \E i \in 1..Len(s) : PostcodeMatchAt(s, i)
    THEN CHOOSE i \in 1..Len(s) :
            /\ PostcodeMatchAt(s, i)
            /\ \A j \in 1..(i - 1) : ~PostcodeMatchAt(s, j)
    ELSE 0

\* the extract_postcode the interpreter binds last: it replaces the first
\* definition of the same name and returns the letters as matched
extract_postcode(text) ==
    LET i == PostcodeSearch(text)
        p == i + 4 + SpaceRun(text, i + 4)
    IN  IF i = 0 THEN <<>>
        ELSE SubSeq(text, i, i + 3) \o <<" ">> \o SubSeq(text, p, p + 1)

\* the character class of the place pattern: letters, apostrophe, dash and
\* space (the model's texts hold no accented letters and no grave accent)
IsPlaceChar(c) == IsLetter(c) \/ c \in {"'", "-", " "}

RECURSIVE PlaceRun(_, _)
PlaceRun(s, i) == IF i <= Len(s) /\ IsPlaceChar(s[i]) THEN 1 + PlaceRun(s, i + 1) ELSE 0

\* \b\d{4}\s*[A-Z]{2}\s+(place characters{2,}) tried at position i (case
\* sensitive).  q is the position after the two letters; the white space run
\* there gives back characters until the group has two.
PlaceMatchAt(s, i) ==
    LET p == i + 4 + SpaceRun(s, i + 4)
        q == p + 2
    IN  /\ WordBoundary(s, i)
        /\ \A d \in 0..3 : IsDigit(At(s, i + d))
        /\ IsUpper(At(s, p))
        /\ IsUpper(At(s, p + 1))
        /\ SpaceRun(s, q) >= 1
        /\ PlaceRun(s, q) >= 3

PlaceGroup(s, i) ==
    LET p == i + 4 + SpaceRun(s, i + 4)
        q == p + 2
        k == SpaceRun(s, q)
        m == PlaceRun(s, q)
        j == IF k <= m - 2 THEN k ELSE m - 2
    IN  SubSeq(s, q + j, q + m - 1)

\* a match of \s+[A-Z]\s+ starts at position a
NoiseAt(s, a) ==
    LET r == SpaceRun(s, a)
    IN  /\ r >= 1
        /\ IsUpper(At(s, a + r))
        /\ IsSpace(At(s, a + r + 1))

\* re.split(r"\s+EUR|\s+\d+\s*m2|\s+k\.k\.|\s+v\.o\.n\.|\s+[A-Z]\s+", place)[0]:
\* the group holds letters, quotes, dashes and spaces only, so the last
\* alternative is the one that can match inside it
SplitNoise(place) ==
    IF \E a \in 1..Len(place) : NoiseAt(place, a)
    THEN Take(place, (CHOOSE a \in 1..Len(place) :
                        /\ NoiseAt(place, a)
                        /\ \A b \in 1..(a - 1) : ~NoiseAt(place, b)) - 1)
    ELSE place

extract_place_from_location_text(location_text) ==
    IF location_text = <<>> THEN <<>>
    ELSE IF ~\E i \in 1..Len(location_text) : PlaceMatchAt(location_text, i) THEN <<>>
    ELSE LET i == CHOOSE i \in 1..Len(location_text) :
                    /\ PlaceMatchAt(location_text, i)
                    /\ \A j \in 1..(i - 1) : ~PlaceMatchAt(location_text, j)
         IN  norm(SplitNoise(PlaceGroup(location_text, i)))

FundaLit == <<"f", "u", "n", "d", "a", ".", "n", "l", "/", "d", "e", "t", "a", "i", "l", "/", "k", "o", "o", "p", "/">>

RECURSIVE SegmentRun(_, _)
SegmentRun(s, i) == IF i <= Len(s) /\ s[i] # "/" THEN 1 + SegmentRun(s, i + 1) ELSE 0

\* funda\.nl/detail/koop/([^/]+)/ tried at position i
FundaMatchAt(s, i) ==
    LET b == i + Len(FundaLit)
        n == SegmentRun(s, b)
    IN  /\ OccursAt(s, FundaLit, i)
        /\ n >= 1
        /\ At(s, b + n) = "/"

extract_place_from_funda_url(url) ==
    LET low == LowerStr(url)
    IN  IF ~\E i \in 1..Len(low) : FundaMatchAt(low, i) THEN <<>>
        ELSE LET i == CHOOSE i \in 1..Len(low) :
                        /\ FundaMatchAt(low, i)
                        /\ \A j \in 1..(i - 1) : ~FundaMatchAt(low, j)
                 b == i + Len(FundaLit)
                 g == SubSeq(low, b, b + SegmentRun(low, b) - 1)
             IN  [x \in 1..Len(g) |-> IF g[x] = "-" THEN " " ELSE g[x]]

extract_street_from_title(title) ==
    LET pc == extract_postcode(title)
        f == Find(title, pc)
    IN  IF pc = <<>> THEN <<>>
        ELSE norm(IF f = 0 THEN title ELSE Take(title, f - 1))

Ned == <<",", " ", "N", "e", "d", "e", "r", "l", "a", "n", "d">>

FallbackRegion == <<"L", "i", "m", "b", "u", "r", "g">> \o Ned

\* the locals pc, place and street of guess_address_variants
PcOf(row) ==
    IF extract_postcode(row.location_text) # <<>>
    THEN extract_postcode(row.location_text)
    ELSE extract_postcode(row.title)

PlaceOf(row) ==
    IF extract_place_from_location_text(row.location_text) # <<>>
    THEN extract_place_from_location_text(row.location_text)
    ELSE extract_place_from_funda_url(row.url)

StreetOf(row) == extract_street_from_title(row.title)

\* the list "variants" before the final clean-up
RawVariants(row) ==
    LET pc == PcOf(row)
        place == PlaceOf(row)
        street == StreetOf(row)
    IN  (IF street # <<>> /\ pc # <<>> /\ place # <<>>
         THEN << street \o <<",", " ">> \o pc \o <<" ">> \o place \o Ned >> ELSE <<>>)
        \o (IF pc # <<>> /\ place # <<>>
            THEN << pc \o <<" ">> \o place \o Ned >> ELSE <<>>)
        \o (IF row.title # <<>> THEN << row.title \o Ned >> ELSE <<>>)
        \o (IF place # <<>> THEN << place \o Ned >> ELSE <<>>)
        \o << FallbackRegion >>

\* "uniek + netjes": norm every variant, keep the first of equal ones
RECURSIVE UniqueNorm(_, _)
UniqueNorm(vs, out) ==
    IF vs = <<>> THEN out
    ELSE LET v == norm(Head(vs))
         IN  IF v # <<>> /\ ~\E i \in 1..Len(out) : out[i] = v
             THEN UniqueNorm(Tail(vs), Append(out, v))
             ELSE UniqueNorm(Tail(vs), out)

guess_address_variants(row) == UniqueNorm(RawVariants(row), <<>>)

(***************************************************************************)
(* Listings.  A Row carries the fields the pipeline reads; scraped_at,     *)
(* price_text and since_text are copied through unchanged and left out.    *)
(***************************************************************************)
\* an optional value: None is the empty tuple, a present value v is <<v>>
None == <<>>

Some(v) == <<v>>

\* Row as the Listing Extractor builds it: the geo fields at their defaults
MkRow(source, title, location_text, url) ==
    [source |-> source, title |-> title, location_text |-> location_text, url |-> url,
     municipality |-> "", lat |-> None, lon |-> None, distance_km |-> None]

FundaHost == <<"w", "w", "w", ".", "f", "u", "n", "d", "a", ".", "n", "l">>

UrlHelmond == <<"h", "t", "t", "p", "s", ":", "/", "/", "w", "w", "w", ".", "f", "u", "n", "d", "a", ".", "n", "l", "/", "d", "e", "t", "a", "i", "l", "/", "k", "o", "o", "p", "/", "h", "e", "l", "m", "o", "n", "d", "/", "h", "u", "i", "s", "-", "a", "/", "1", "/">>

UrlDenBosch == <<"h", "t", "t", "p", "s", ":", "/", "/", "w", "w", "w", ".", "f", "u", "n", "d", "a", ".", "n", "l", "/", "d", "e", "t", "a", "i", "l", "/", "k", "o", "o", "p", "/", "D", "e", "n", "-", "B", "o", "s", "c", "h", "/", "h", "u", "i", "s", "-", "b", "/", "2", "/">>

\* Texts for the address parser: a title is street + postal code + place,
\* each part present or not, the postal code in several spellings.
TitleStreets == {<<>>, <<"L", "a", "a", "n", " ", "6", " ">>}

TitlePostcodes == {<<>>,
                   <<"5", "7", "0", "4", " ", "D", "C">>,
                   <<"5", "7", "0", "4", "d", "c">>,
                   <<"5", "7", "0", "4", " ", " ", "D", "c">>,
                   <<"1", "5", "7", "0", "4", " ", "D", "C">>}

TitlePlaces == {<<>>, <<" ", "H", "e", "l", "m", "o", "n", "d">>}

\* scrape_search_page keeps an anchor only when its text has 4 characters
MinTitleLen == 4

TextTitles == {t \in {s \o p \o q : s \in TitleStreets, p \in TitlePostcodes, q \in TitlePlaces} :
                  Len(t) >= MinTitleLen}

TextLocations == {<<>>,
                  <<"5", "7", "0", "4", " ", "D", "C", " ", "H", "e", "l", "m", "o", "n", "d", " ", "EUR", " ", "4", "5", "0", " ", "k", ".", "k", ".">>,
                  <<"6", "2", "1", "1", " ", "a", "b", " ", "E", "p", "e", "n">>,
                  <<"6", "2", "1", "1", "A", "B", " ", " ", "E", "p", "e", "n", " ", "A", " ", "b">>,
                  <<"H", "e", "l", "m", "o", "n", "d">>}

TextUrls == {UrlHelmond, UrlDenBosch}

TextRows == {MkRow(FundaHost, t, l, u) : t \in TextTitles, l \in TextLocations, u \in TextUrls}

(***************************************************************************)
(* The listings the search pages of the model can show.                    *)
(***************************************************************************)
UrlVillaB == <<"h", "t", "t", "p", "s", ":", "/", "/", "w", "w", "w", ".", "f", "u", "n", "d", "a", ".", "n", "l", "/", "d", "e", "t", "a", "i", "l", "/", "k", "o", "o", "p", "/", "h", "e", "l", "m", "o", "n", "d", "/", "h", "u", "i", "s", "-", "b", "/", "2", "/">>

TitleVillaA == <<"V", "i", "l", "l", "a", " ", "A">>

TitleVillaB == <<"V", "i", "l", "l", "a", " ", "B">>

RowA == MkRow(FundaHost, TitleVillaA, <<>>, UrlHelmond)

\* the anchor of Villa B has a space after the address in its href:
\* absolute_url returns an href that starts with "http" as it is, and
\* FUNDA_DETAIL_RE matches a prefix of it
RowB == MkRow(FundaHost, TitleVillaB, <<>>, UrlVillaB \o <<" ">>)

Catalogue == {RowA, RowB}

CatalogueSeq == <<RowA, RowB>>

\* guess_address_variants of every listing of the catalogue
VariantTable == [j \in 1..Len(CatalogueSeq) |-> guess_address_variants(CatalogueSeq[j])]

(***************************************************************************)
(* Coordinates are in units of 1e-7 degree, distances in units of 0.01 km, *)
(* time in tenths of a second.                                             *)
(***************************************************************************)
Pt(lat, lon) == [lat |-> lat, lon |-> lon]

CENTER_NAME == <<"V", "a", "l", "k", "e", "n", "b", "u", "r", "g", " ", "a", "a", "n", " ", "d", "e", " ", "G", "e", "u", "l">> \o Ned

CENTER_FALLBACK_LATLON == Pt(508650000, 58320000)

RADIUS_KM == 10000

SLEEP_SEC_BETWEEN_GEOCODE == 11

HelmondQuery == <<"h", "e", "l", "m", "o", "n", "d">> \o Ned

\* what Nominatim holds: the place of every string the model can send. The
\* fallback region lies within a millionth of a degree of Villa A, Villa B
\* lies outside the radius.
PlaceOfQuery(q) ==
    CASE q = CENTER_NAME -> Pt(508652000, 58321000)
      [] q = TitleVillaA \o Ned -> Pt(509000001, 59000000)
      [] q = TitleVillaB \o Ned -> Pt(532000000, 65600000)
      [] q = HelmondQuery -> Pt(514800000, 56600000)
      [] q = FallbackRegion -> Pt(509000003, 59000000)
      [] OTHER -> Pt(0, 0)

\* the strings Nominatim can answer
Queries == {CENTER_NAME, TitleVillaA \o Ned, TitleVillaB \o Ned, HelmondQuery, FallbackRegion}

\* geolocator.geocode(addr) when the service is up or not for addr: a
\* location or None (None also stands for the exception the caller turns
\* into None)
Geocode(addr, up) == IF up THEN Some(PlaceOfQuery(addr)) ELSE None

Abs(x) == IF x < 0 THEN -x ELSE x

\* the integer square root, by bisection between lo and hi
RECURSIVE Bisect(_, _, _)
Bisect(n, lo, hi) ==
    IF lo >= hi THEN lo
    ELSE LET mid == (lo + hi + 1) \div 2
         IN  IF mid * mid <= n THEN Bisect(n, mid, hi) ELSE Bisect(n, lo, mid - 1)

ISqrt(n) == Bisect(n, 0, 40000)

\* geopy's geodesic(a, b).km on the model's points: a flat approximation
\* (111.2 km per degree of latitude, 70 km per degree of longitude)
geodesic(a, b) ==
    LET dy == ((Abs(a.lat - b.lat) \div 100) * 1112) \div 10000
        dx == ((Abs(a.lon - b.lon) \div 100) * 700) \div 10000
    IN  ISqrt(dy * dy + dx * dx)

\* round(dist_km, 1): to the nearest tenth of a km, ties to even
round1(d) ==
    LET q == d \div 10
        r == d % 10
    IN  IF r > 5 \/ (r = 5 /\ q % 2 = 1) THEN (q + 1) * 10 ELSE q * 10

\* one coordinate formatted with "{:.6f}"
Format6(x) == IF x % 10 >= 5 THEN x \div 10 + 1 ELSE x \div 10

\* rev_key = f"{lat:.6f},{lon:.6f}"
rev_key(lat, lon) == <<Format6(lat), Format6(lon)>>

\* address breakdowns a reverse lookup can return: one with a city and a
\* village, one with none of the five fields
AddrCity == [municipality |-> "", city |-> "Valkenburg", town |-> "", village |-> "Houthem", county |-> ""]

AddrBare == [municipality |-> "", city |-> "", town |-> "", village |-> "", county |-> ""]

\* geolocator.reverse(...): an address breakdown or None (None also stands
\* for the exception the caller turns into None)
ReverseAnswers == {None, Some(AddrCity), Some(AddrBare)}

\* addr.get("municipality") or addr.get("city") or ... or ""
MunicipalityOf(addr) ==
    IF addr.municipality # "" THEN addr.municipality
    ELSE IF addr.city # "" THEN addr.city
    ELSE IF addr.town # "" THEN addr.town
    ELSE IF addr.village # "" THEN addr.village
    ELSE IF addr.county # "" THEN addr.county
    ELSE ""

(***************************************************************************)
(* Files and dictionaries.                                                 *)
(***************************************************************************)
EmptyDict == [x \in {} |-> None]

Put(d, key, v) == [x \in DOMAIN d \cup {key} |-> IF x = key THEN v ELSE d[x]]

NoFile == [exists |-> FALSE, items |-> {}]

\* json.dump of a dict: the file holds its key/value pairs
save_json_cache(cache) == [exists |-> TRUE, items |-> {<<key, cache[key]>> : key \in DOMAIN cache}]

\* a load that never finds the file
LoadNothing(file) == EmptyDict

\* json.load, {} for a missing file
load_json_cache(file) ==
    IF ~file.exists THEN EmptyDict
    ELSE [key \in {it[1] : it \in file.items} |->
            (CHOOSE it \in file.items : it[1] = key)[2]]

NoCsv == [exists |-> FALSE, rows |-> <<>>]

\* write_csv: the header and one line per row
write_csv(rows) == [exists |-> TRUE, rows |-> rows]

Http == <<"h", "t", "t", "p">>

\* the url column of the previous snapshot: cells that start with "http",
\* stripped
load_prev_urls(file) ==
    IF ~file.exists THEN {}
    ELSE {Strip(file.rows[i].url) : i \in {j \in 1..Len(file.rows) : OccursAt(file.rows[j].url, Http, 1)}}

(***************************************************************************)
(* Bounds.                                                                 *)
(***************************************************************************)
\* entries of SITES
NumSites == 2

\* detail links one search page yields
MaxPageLen == 1

\* runs of the script, one after the other on the same files
MaxRuns == 2

\* what scrape_search_page can return: listings with distinct URLs
RECURSIVE SeqsUpTo(_, _)
SeqsUpTo(S, n) ==
    IF n = 0 THEN {<<>>}
    ELSE SeqsUpTo(S, n - 1) \cup
         {Append(q, x) : q \in {t \in SeqsUpTo(S, n - 1) : Len(t) = n - 1}, x \in S}

Pages == {q \in SeqsUpTo(Catalogue, MaxPageLen) :
             \A a, b \in 1..Len(q) : a # b => q[a].url # q[b].url}

\* a call to the service returns at once or takes the whole spacing
CallDurations == {1, SLEEP_SEC_BETWEEN_GEOCODE}

(***************************************************************************)
(* State.                                                                  *)
(***************************************************************************)
VARIABLES
    variants,       \* guess_address_variants of the catalogue's listings
    geoAns,         \* the strings sent to geocode in this run: answered or not
    revAns,         \* the keys sent to reverse in this run: the answer
    run,            \* number of the current run
    pc,             \* position of the script
    i,              \* index into SITES
    lastFetch,      \* what happened at the site just handled
    all_rows, detail_rows, filtered_rows,
    prev_urls,
    geo_cache, rev_cache,
    center_latlon,
    idx,            \* index of r in rows
    k,              \* index of addr in guess_address_variants(r)
    latlon,
    queried,        \* the addresses sent to the service for r
    enriched,
    geoFile, revFile, snapshotFile, newFile,
    sinceGeocode,   \* time since the geocode limiter's last call, capped
    sinceReverse,   \* time since the reverse limiter's last call, capped
    lastGap,        \* time between the last two calls to the service, capped
    outcomes,       \* per resolved row of the run: its terminal outcome
    startGeo, startRev,   \* the caches as loaded at the start of the run
    prevOutcomes,   \* rows and terminal outcomes of the previous run
    prevSnapshot,   \* the snapshot file as the run found it
    txtRow, txtOut  \* input and output of the address variant generator

vars == <<variants, geoAns, revAns, run, pc, i, lastFetch, all_rows, detail_rows,
          filtered_rows, prev_urls, geo_cache, rev_cache, center_latlon, idx, k, latlon,
          queried, enriched, geoFile, revFile, snapshotFile, newFile, sinceGeocode,
          sinceReverse, lastGap, outcomes, startGeo, startRev, prevOutcomes,
          prevSnapshot, txtRow, txtOut>>

services == <<geoAns, revAns>>

textVars == <<txtRow, txtOut>>

timers == <<sinceGeocode, sinceReverse, lastGap>>

scrapeVars == <<i, lastFetch, all_rows, detail_rows, filtered_rows, prev_urls, prevSnapshot>>

cacheVars == <<geo_cache, rev_cache, geoFile, revFile>>

outFiles == <<snapshotFile, newFile>>

history == <<startGeo, startRev, prevOutcomes>>

\* the first run finds none of the four files
Init ==
    /\ variants = VariantTable
    /\ run = 1
    /\ pc = "start"
    /\ geoAns = EmptyDict
    /\ revAns = EmptyDict
    /\ i = 1
    /\ lastFetch = "none"
    /\ all_rows = <<>>
    /\ detail_rows = <<>>
    /\ filtered_rows = <<>>
    /\ prev_urls = {}
    /\ geo_cache = EmptyDict
    /\ rev_cache = EmptyDict
    /\ center_latlon = CENTER_FALLBACK_LATLON
    /\ idx = 1
    /\ k = 1
    /\ latlon = None
    /\ queried = <<>>
    /\ enriched = <<>>
    /\ sinceGeocode = SLEEP_SEC_BETWEEN_GEOCODE
    /\ sinceReverse = SLEEP_SEC_BETWEEN_GEOCODE
    /\ lastGap = SLEEP_SEC_BETWEEN_GEOCODE
    /\ outcomes = <<>>
    /\ startGeo = EmptyDict
    /\ startRev = EmptyDict
    /\ prevSnapshot = NoCsv
    /\ geoFile = NoFile
    /\ revFile = NoFile
    /\ snapshotFile = NoCsv
    /\ newFile = NoCsv
    /\ prevOutcomes = {}
    /\ txtRow = RowA
    /\ txtOut = None

(***************************************************************************)
(* run(): scraping.                                                        *)
(***************************************************************************)
\* prev_urls = load_prev_urls(OUT_SNAPSHOT_CSV); all_rows = []
StartRun ==
    /\ pc = "start"
    /\ prev_urls' = load_prev_urls(snapshotFile)
    /\ prevSnapshot' = snapshotFile
    /\ all_rows' = <<>>
    /\ i' = 1
    /\ lastFetch' = "none"
    /\ pc' = "sites"
    /\ UNCHANGED <<variants, services, run, detail_rows, filtered_rows, cacheVars,
                   center_latlon, idx, k, latlon, queried, enriched, outFiles, timers,
                   outcomes, history, textVars>>

ScrapeUnchanged ==
    UNCHANGED <<variants, services, run, detail_rows, filtered_rows, prev_urls,
                prevSnapshot, cacheVars, center_latlon, idx, k, latlon, queried, enriched,
                outFiles, timers, outcomes, history, textVars>>

\* robots_allows(search_url) is false: continue
RobotsSkip ==
    /\ pc = "sites"
    /\ i <= NumSites
    /\ lastFetch' = "skipped"
    /\ i' = i + 1
    /\ UNCHANGED <<pc, all_rows>>
    /\ ScrapeUnchanged

\* a failure that ends the loop over SITES instead of going on
FetchFailAbort ==
    /\ pc = "sites"
    /\ i <= NumSites
    /\ lastFetch' = "failed"
    /\ all_rows' = all_rows \o <<>>
    /\ i' = NumSites + 1
    /\ UNCHANGED pc
    /\ ScrapeUnchanged

\* fetch or scrape_search_page raises: rows = [], and the loop goes on
FetchFail ==
    /\ pc = "sites"
    /\ i <= NumSites
    /\ lastFetch' = "failed"
    /\ all_rows' = all_rows \o <<>>
    /\ i' = i + 1
    /\ UNCHANGED pc
    /\ ScrapeUnchanged

\* the page is fetched and scraped: all_rows.extend(rows)
FetchOk(page) ==
    /\ pc = "sites"
    /\ i <= NumSites
    /\ lastFetch' = "ok"
    /\ all_rows' = all_rows \o page
    /\ i' = i + 1
    /\ UNCHANGED pc
    /\ ScrapeUnchanged

\* no deduplication: every extracted row is kept
KeepAllRows(rows, out) == out \o rows

\* uniq.setdefault(r.url, r) over all_rows; list(uniq.values())
RECURSIVE DedupRows(_, _)
DedupRows(rows, out) ==
    IF rows = <<>> THEN out
    ELSE IF \E j \in 1..Len(out) : out[j].url = Head(rows).url
         THEN DedupRows(Tail(rows), out)
         ELSE DedupRows(Tail(rows), Append(out, Head(rows)))

Dedup ==
    /\ pc = "sites"
    /\ i > NumSites
    /\ detail_rows' = DedupRows(all_rows, <<>>)
    /\ pc' = "filter"
    /\ lastFetch' = "none"
    /\ UNCHANGED <<variants, services, run, i, all_rows, filtered_rows, prev_urls,
                   prevSnapshot, cacheVars, center_latlon, idx, k, latlon, queried,
                   enriched, outFiles, timers, outcomes, history, textVars>>

FundaNl == <<"f", "u", "n", "d", "a", ".", "n", "l">>

RECURSIVE Select(_, _)
Select(rows, keep) ==
    IF rows = <<>> THEN <<>>
    ELSE (IF Head(rows) \in keep THEN <<Head(rows)>> ELSE <<>>) \o Select(Tail(rows), keep)

\* funda rows pass; any other row passes when is_bungalow_detail says so
Filter ==
    /\ pc = "filter"
    /\ \E bungalow \in SUBSET {detail_rows[j] : j \in {x \in 1..Len(detail_rows) :
                                    Find(detail_rows[x].source, FundaNl) = 0}} :
          filtered_rows' = Select(detail_rows,
                                  {detail_rows[j] : j \in {x \in 1..Len(detail_rows) :
                                        Find(detail_rows[x].source, FundaNl) # 0}}
                                  \cup bungalow)
    /\ pc' = "load"
    /\ UNCHANGED <<variants, services, run, i, lastFetch, all_rows, detail_rows, prev_urls,
                   prevSnapshot, cacheVars, center_latlon, idx, k, latlon, queried,
                   enriched, outFiles, timers, outcomes, history, textVars>>

(***************************************************************************)
(* The services and geopy's RateLimiter.                                   *)
(***************************************************************************)
\* the service answers a string the same way every time it is asked in a
\* run, and it knows the places of Queries only
Answers(addr, up) ==
    /\ up => addr \in Queries
    /\ addr \in DOMAIN geoAns => geoAns[addr] = up

Cap(t) == IF t > SLEEP_SEC_BETWEEN_GEOCODE THEN SLEEP_SEC_BETWEEN_GEOCODE ELSE t

Min(a, b) == IF a < b THEN a ELSE b

\* RateLimiter: sleep until min_delay_seconds have passed since this
\* limiter's own last call
LimiterWait(since) ==
    IF since < SLEEP_SEC_BETWEEN_GEOCODE THEN SLEEP_SEC_BETWEEN_GEOCODE - since ELSE 0

\* a call through the limiter "geocode" that takes d
GeocodeTimers(d) ==
    LET w == LimiterWait(sinceGeocode)
    IN  /\ lastGap' = Cap(Min(sinceGeocode, sinceReverse) + w)
        /\ sinceGeocode' = Cap(d)
        /\ sinceReverse' = Cap(sinceReverse + w + d)

\* a call through the limiter "reverse" that takes d
ReverseTimers(d) ==
    LET w == LimiterWait(sinceReverse)
    IN  /\ lastGap' = Cap(Min(sinceGeocode, sinceReverse) + w)
        /\ sinceReverse' = Cap(d)
        /\ sinceGeocode' = Cap(sinceGeocode + w + d)

(***************************************************************************)
(* geocode_and_enrich_rows.                                                *)
(***************************************************************************)
\* get_center_latlon: the center's place, or the fallback
CenterOf(loc) == IF loc # None THEN loc[1] ELSE CENTER_FALLBACK_LATLON

\* the two limiters are made, the caches loaded and the center looked up
LoadCaches(d, up) ==
    /\ pc = "load"
    /\ up => CENTER_NAME \in Queries
    /\ geo_cache' = load_json_cache(geoFile)
    /\ rev_cache' = load_json_cache(revFile)
    /\ startGeo' = load_json_cache(geoFile)
    /\ startRev' = load_json_cache(revFile)
    /\ geoAns' = Put(EmptyDict, CENTER_NAME, up)
    /\ revAns' = EmptyDict
    /\ center_latlon' = CenterOf(Geocode(CENTER_NAME, up))
    /\ lastGap' = SLEEP_SEC_BETWEEN_GEOCODE
    /\ sinceGeocode' = Cap(d)
    /\ sinceReverse' = SLEEP_SEC_BETWEEN_GEOCODE
    /\ enriched' = <<>>
    /\ idx' = 1
    /\ pc' = "loop"
    /\ UNCHANGED <<variants, run, scrapeVars, k, latlon, queried, geoFile, revFile,
                   outFiles, outcomes, prevOutcomes, textVars>>

RECURSIVE Reversed(_)
Reversed(s) == IF s = <<>> THEN <<>> ELSE Append(Reversed(Tail(s)), Head(s))

\* the variants with the most general first
VariantsReversed(r) == Reversed(variants[CHOOSE j \in 1..Len(CatalogueSeq) : CatalogueSeq[j] = r])

\* guess_address_variants(r), looked up for a listing of the catalogue
VariantsOf(r) == variants[CHOOSE j \in 1..Len(CatalogueSeq) : CatalogueSeq[j] = r]

\* lines 369-375: the cache under the URL, then under each variant in order
CachedLatLon(r, cache) ==
    LET vs == VariantsOf(r)
        hits == {j \in 1..Len(vs) : vs[j] \in DOMAIN cache}
    IN  IF r.url \in DOMAIN cache THEN Some(cache[r.url])
        ELSE IF hits = {} THEN None
        ELSE Some(cache[vs[CHOOSE j \in hits : \A h \in hits : j <= h]])

\* a write under the URL only
WriteGeoUrlOnly(cache, url, addr, ll) == Put(cache, url, ll)

\* geo_cache[r.url] = ...; geo_cache[used_addr] = ...
WriteGeo(cache, url, addr, ll) == Put(Put(cache, url, ll), addr, ll)

\* a reverse cache that keeps non-empty names only
CacheReverseNamed(cache, key, loc) ==
    IF loc # None /\ MunicipalityOf(loc[1]) # ""
    THEN Put(cache, key, [municipality |-> MunicipalityOf(loc[1])])
    ELSE cache

\* rev_cache[rev_key] = {"municipality": municipality}, when reverse
\* returned a location
CacheReverse(cache, key, loc) ==
    IF loc # None THEN Put(cache, key, [municipality |-> MunicipalityOf(loc[1])]) ELSE cache

Outcome(r, what, ll, asked) == [row |-> r, outcome |-> what, latlon |-> ll, queried |-> asked]

\* the loop goes on with the next row
NextRow(what, ll) ==
    /\ outcomes' = Append(outcomes, Outcome(filtered_rows[idx], what, ll, queried))
    /\ idx' = idx + 1
    /\ k' = 1
    /\ latlon' = None
    /\ queried' = <<>>
    /\ pc' = "loop"

LookupCache ==
    /\ pc = "loop"
    /\ idx <= Len(filtered_rows)
    /\ latlon' = CachedLatLon(filtered_rows[idx], geo_cache)
    /\ pc' = IF CachedLatLon(filtered_rows[idx], geo_cache) # None THEN "distance" ELSE "geocode"
    /\ k' = 1
    /\ queried' = <<>>
    /\ UNCHANGED <<variants, services, run, scrapeVars, cacheVars, center_latlon, idx,
                   enriched, outFiles, timers, outcomes, history, textVars>>

\* loc = geocode(addr) for the k-th variant; on a result the cache is
\* written under the URL and the variant and saved
GeocodeCall(d, up) ==
    LET r == filtered_rows[idx]
        vs == VariantsOf(r)
        addr == vs[k]
        loc == Geocode(addr, up)
    IN  /\ pc = "geocode"
        /\ Answers(addr, up)
        /\ geoAns' = Put(geoAns, addr, up)
        /\ GeocodeTimers(d)
        /\ IF loc # None
           THEN /\ latlon' = loc
                /\ geo_cache' = WriteGeo(geo_cache, r.url, addr, loc[1])
                /\ geoFile' = save_json_cache(WriteGeo(geo_cache, r.url, addr, loc[1]))
                /\ queried' = Append(queried, addr)
                /\ pc' = "distance"
                /\ UNCHANGED <<idx, k, outcomes>>
           ELSE IF k < Len(vs)
           THEN /\ k' = k + 1
                /\ queried' = Append(queried, addr)
                /\ UNCHANGED <<latlon, geo_cache, geoFile, idx, pc, outcomes>>
           ELSE /\ outcomes' = Append(outcomes, Outcome(r, "DROPPED_NO_GEO", None, Append(queried, addr)))
                /\ idx' = idx + 1
                /\ k' = 1
                /\ latlon' = None
                /\ queried' = <<>>
                /\ pc' = "loop"
                /\ UNCHANGED <<geo_cache, geoFile>>
        /\ UNCHANGED <<variants, revAns, run, scrapeVars, rev_cache, revFile, center_latlon,
                       enriched, outFiles, history, textVars>>

\* replace(r, municipality=..., lat=..., lon=..., distance_km=round(dist_km, 1))
Enrich(r, municipality, ll, dist_km) ==
    [r EXCEPT !.municipality = municipality, !.lat = Some(ll.lat), !.lon = Some(ll.lon),
              !.distance_km = Some(round1(dist_km))]

\* if dist_km > RADIUS_KM: continue
OutOfRadius(dist_km) == dist_km > RADIUS_KM

\* the radius filter and the reverse cache
DistanceFilter ==
    LET r == filtered_rows[idx]
        ll == latlon[1]
        dist_km == geodesic(center_latlon, ll)
        key == rev_key(ll.lat, ll.lon)
    IN  /\ pc = "distance"
        /\ IF OutOfRadius(dist_km)
           THEN /\ NextRow("DROPPED_OUT_OF_RADIUS", latlon)
                /\ UNCHANGED enriched
           ELSE IF key \in DOMAIN rev_cache
           THEN /\ NextRow("ENRICHED", latlon)
                /\ enriched' = Append(enriched, Enrich(r, rev_cache[key].municipality, ll, dist_km))
           ELSE /\ pc' = "reverse"
                /\ UNCHANGED <<idx, k, latlon, queried, outcomes, enriched>>
        /\ UNCHANGED <<variants, services, run, scrapeVars, cacheVars, center_latlon,
                       outFiles, timers, history, textVars>>

\* loc = reverse(...); a result is cached and saved, also with an empty name
ReverseCall(d, loc) ==
    LET r == filtered_rows[idx]
        ll == latlon[1]
        dist_km == geodesic(center_latlon, ll)
        key == rev_key(ll.lat, ll.lon)
        municipality == IF loc # None THEN MunicipalityOf(loc[1]) ELSE ""
    IN  /\ pc = "reverse"
        /\ key \in DOMAIN revAns => revAns[key] = loc
        /\ revAns' = Put(revAns, key, loc)
        /\ ReverseTimers(d)
        /\ rev_cache' = CacheReverse(rev_cache, key, loc)
        /\ revFile' = IF loc # None THEN save_json_cache(CacheReverse(rev_cache, key, loc))
                      ELSE revFile
        /\ enriched' = Append(enriched, Enrich(r, municipality, ll, dist_km))
        /\ NextRow("ENRICHED", latlon)
        /\ UNCHANGED <<variants, geoAns, run, scrapeVars, geo_cache, geoFile, center_latlon,
                       outFiles, history, textVars>>

(***************************************************************************)
(* geocode_and_enrich_rows as a function of the rows, the caches it loads, *)
(* the center and the service: up is the set of strings geocode answers,   *)
(* rw gives reverse's answer per key (no answer for a key it lacks).       *)
(***************************************************************************)
\* index of the first variant from j on that the service answers, 0 if none
RECURSIVE FirstAnswered(_, _, _)
FirstAnswered(vs, up, j) ==
    IF j > Len(vs) THEN 0
    ELSE IF vs[j] \in up THEN j
    ELSE FirstAnswered(vs, up, j + 1)

\* one pass of the loop body for r
ResolveOne(r, geo, rev, center, up, rw) ==
    LET vs == VariantsOf(r)
        hit == CachedLatLon(r, geo)
        n == IF hit # None THEN 0 ELSE FirstAnswered(vs, up, 1)
        asked == IF hit # None THEN <<>> ELSE IF n = 0 THEN vs ELSE Take(vs, n)
        ll == IF hit # None THEN hit ELSE IF n = 0 THEN None ELSE Geocode(vs[n], TRUE)
        geo2 == IF hit = None /\ n # 0 THEN WriteGeo(geo, r.url, vs[n], ll[1]) ELSE geo
        dist_km == geodesic(center, ll[1])
        key == rev_key(ll[1].lat, ll[1].lon)
        loc == IF key \in DOMAIN rw THEN rw[key] ELSE None
        res(what, row, rev2, keys) ==
            [outcome |-> what, latlon |-> ll, queried |-> asked, row |-> row,
             geo |-> geo2, rev |-> rev2, revAsked |-> keys]
    IN  IF ll = None THEN res("DROPPED_NO_GEO", None, rev, {})
        ELSE IF OutOfRadius(dist_km) THEN res("DROPPED_OUT_OF_RADIUS", None, rev, {})
        ELSE IF key \in DOMAIN rev
        THEN res("ENRICHED", Some(Enrich(r, rev[key].municipality, ll[1], dist_km)), rev, {})
        ELSE res("ENRICHED",
                 Some(Enrich(r, IF loc # None THEN MunicipalityOf(loc[1]) ELSE "", ll[1], dist_km)),
                 CacheReverse(rev, key, loc), {key})

\* the loop over rows, from the state acc
RECURSIVE EnrichFrom(_, _, _, _, _)
EnrichFrom(rows, center, up, rw, acc) ==
    IF rows = <<>> THEN acc
    ELSE LET r == Head(rows)
             o == ResolveOne(r, acc.geo, acc.rev, center, up, rw)
         IN  EnrichFrom(Tail(rows), center, up, rw,
                 [outcomes |-> Append(acc.outcomes, Outcome(r, o.outcome, o.latlon, o.queried)),
                  enriched |-> acc.enriched \o o.row,
                  geo |-> o.geo,
                  rev |-> o.rev,
                  asked |-> acc.asked \cup {o.queried[j] : j \in 1..Len(o.queried)},
                  revAsked |-> acc.revAsked \cup o.revAsked])

EnrichAll(rows, geo, rev, center, up, rw) ==
    EnrichFrom(rows, center, up, rw,
               [outcomes |-> <<>>, enriched |-> <<>>, geo |-> geo, rev |-> rev,
                asked |-> {}, revAsked |-> {}])

(***************************************************************************)
(* run(): the snapshot and the new-listings file.                          *)
(***************************************************************************)
RECURSIVE NotIn(_, _)
NotIn(rows, urls) ==
    IF rows = <<>> THEN <<>>
    ELSE (IF Head(rows).url \notin urls THEN <<Head(rows)>> ELSE <<>>) \o NotIn(Tail(rows), urls)

WriteOutputs ==
    /\ pc = "loop"
    /\ idx > Len(filtered_rows)
    /\ snapshotFile' = write_csv(enriched)
    /\ newFile' = write_csv(NotIn(enriched, prev_urls))
    /\ pc' = "done"
    /\ UNCHANGED <<variants, services, run, scrapeVars, cacheVars, center_latlon, idx, k,
                   latlon, queried, enriched, timers, outcomes, history, textVars>>

\* what a later run can be compared with: row and terminal outcome
Summary(outs) == {[row |-> outs[j].row, outcome |-> outs[j].outcome] : j \in 1..Len(outs)}

\* the script is started again: the cache files and the snapshot are what
\* the last run left, the variables of the process are gone, the service is
\* free to answer otherwise; the new-listings file, written by every run
\* and read by none, is not followed
NextRun ==
    /\ pc = "done"
    /\ run < MaxRuns
    /\ run' = run + 1
    /\ pc' = "start"
    /\ prevOutcomes' = Summary(outcomes)
    /\ geoAns' = EmptyDict
    /\ revAns' = EmptyDict
    /\ i' = 1
    /\ lastFetch' = "none"
    /\ all_rows' = <<>>
    /\ detail_rows' = <<>>
    /\ filtered_rows' = <<>>
    /\ prev_urls' = {}
    /\ geo_cache' = EmptyDict
    /\ rev_cache' = EmptyDict
    /\ center_latlon' = CENTER_FALLBACK_LATLON
    /\ idx' = 1
    /\ k' = 1
    /\ latlon' = None
    /\ queried' = <<>>
    /\ enriched' = <<>>
    /\ sinceGeocode' = SLEEP_SEC_BETWEEN_GEOCODE
    /\ sinceReverse' = SLEEP_SEC_BETWEEN_GEOCODE
    /\ lastGap' = SLEEP_SEC_BETWEEN_GEOCODE
    /\ outcomes' = <<>>
    /\ startGeo' = EmptyDict
    /\ startRev' = EmptyDict
    /\ prevSnapshot' = NoCsv
    /\ newFile' = NoCsv
    /\ UNCHANGED <<variants, geoFile, revFile, snapshotFile, textVars>>

Next ==
    \/ StartRun
    \/ RobotsSkip
    \/ FetchFail
    \/ \E page \in Pages : FetchOk(page)
    \/ Dedup
    \/ Filter
    \/ \E d \in CallDurations, up \in BOOLEAN : LoadCaches(d, up)
    \/ LookupCache
    \/ \E d \in CallDurations, up \in BOOLEAN : GeocodeCall(d, up)
    \/ DistanceFilter
    \/ \E d \in CallDurations, loc \in ReverseAnswers : ReverseCall(d, loc)
    \/ WriteOutputs
    \/ NextRun

Spec == Init /\ [][Next]_vars

(***************************************************************************)
(* The address variant generator on its own.                               *)
(***************************************************************************)
InitText ==
    /\ variants = <<>>
    /\ run = 1
    /\ pc = "text"
    /\ geoAns = EmptyDict
    /\ revAns = EmptyDict
    /\ i = 1
    /\ lastFetch = "none"
    /\ all_rows = <<>>
    /\ detail_rows = <<>>
    /\ filtered_rows = <<>>
    /\ prev_urls = {}
    /\ geo_cache = EmptyDict
    /\ rev_cache = EmptyDict
    /\ center_latlon = CENTER_FALLBACK_LATLON
    /\ idx = 1
    /\ k = 1
    /\ latlon = None
    /\ queried = <<>>
    /\ enriched = <<>>
    /\ sinceGeocode = SLEEP_SEC_BETWEEN_GEOCODE
    /\ sinceReverse = SLEEP_SEC_BETWEEN_GEOCODE
    /\ lastGap = SLEEP_SEC_BETWEEN_GEOCODE
    /\ outcomes = <<>>
    /\ startGeo = EmptyDict
    /\ startRev = EmptyDict
    /\ prevSnapshot = NoCsv
    /\ geoFile = NoFile
    /\ revFile = NoFile
    /\ snapshotFile = NoCsv
    /\ newFile = NoCsv
    /\ prevOutcomes = {}
    /\ txtRow \in TextRows
    /\ txtOut = None

GuessVariants ==
    /\ pc = "text"
    /\ txtOut = None
    /\ txtOut' = Some(guess_address_variants(txtRow))
    /\ UNCHANGED <<variants, services, run, pc, scrapeVars, cacheVars, center_latlon, idx,
                   k, latlon, queried, enriched, outFiles, timers, outcomes, history, txtRow>>

NextText == GuessVariants

SpecText == InitText /\ [][NextText]_vars

(***************************************************************************)
(* Properties.                                                             *)
(***************************************************************************)
\* the row the loop is at
Cur == filtered_rows[idx]

\* the variants the generator gave for a listing of the catalogue
GeneratedVariants(r) == variants[CHOOSE j \in 1..Len(CatalogueSeq) : CatalogueSeq[j] = r]

Last(s) == s[Len(s)]

Without(s, x) == SubSeq(s, 1, x - 1) \o SubSeq(s, x + 1, Len(s))

\* the strings the service answered in this run
Up == {q \in DOMAIN geoAns : geoAns[q]}

KeyOf(ll) == rev_key(ll.lat, ll.lon)

Resolving == pc \in {"loop", "geocode", "distance", "reverse", "done"}

\* lat, lon and distance present, the distance within the radius, the URL
\* shared with no other row
WellFormedOutput(rows) ==
    \A a \in 1..Len(rows) :
        /\ rows[a].lat # None
        /\ rows[a].lon # None
        /\ rows[a].distance_km # None
        /\ rows[a].distance_km[1] <= RADIUS_KM
        /\ \A b \in 1..Len(rows) : a # b => rows[a].url # rows[b].url

\* C1: every record of the enriched list, and of the snapshot written from
\* it, has lat and lon, a distance_km of at most RADIUS_KM, and a URL that no
\* other record of the list has.
C1_OutputInvariant ==
    /\ WellFormedOutput(enriched)
    /\ WellFormedOutput(snapshotFile.rows)

\* a run that scraped the same listing twice and wrote it once
C1_Witness ==
    /\ pc = "done"
    /\ Len(all_rows) = 2
    /\ all_rows[1].url = all_rows[2].url
    /\ Len(snapshotFile.rows) = 1

\* C2 as stated: a listing URL resolved in the previous run is resolved
\* without a geocoding call in this run.
C2_SecondResolutionNoCall ==
    \A j \in 1..Len(outcomes) :
        (\E p \in prevOutcomes : p.row.url = outcomes[j].row.url) =>
            outcomes[j].queried = <<>>

\* C2 amended: a listing that got a coordinate when the previous run
\* resolved it (from the cache or from the service) gets one in this run
\* without a geocoding call.
C2_LocatedNotRequeried ==
    \A j \in 1..Len(outcomes) :
        (\E p \in prevOutcomes : p.row = outcomes[j].row /\ p.outcome # "DROPPED_NO_GEO") =>
            /\ outcomes[j].queried = <<>>
            /\ outcomes[j].latlon # None

\* a listing enriched by a query in the previous run and from the cache now
C2_Witness ==
    /\ run = 2
    /\ \E j \in 1..Len(outcomes) :
          /\ outcomes[j].queried = <<>>
          /\ outcomes[j].outcome = "ENRICHED"
          /\ outcomes[j].row.url \in DOMAIN startGeo
          /\ \E p \in prevOutcomes : p.row = outcomes[j].row /\ p.outcome = "ENRICHED"

\* the URLs of the rows of a snapshot, as written
SnapshotUrls(file) == {file.rows[j].url : j \in 1..Len(file.rows)}

\* C3: the new-listings file holds exactly the records of the run's
\* enriched set whose URL is not a URL of the snapshot the run found.
C3_NewListingsDiff ==
    pc = "done" => newFile.rows = NotIn(snapshotFile.rows, SnapshotUrls(prevSnapshot))

\* C4: two consecutive calls to the geocoding service, forward or reverse,
\* are at least SLEEP_SEC_BETWEEN_GEOCODE apart.
C4_MinSpacing == lastGap >= SLEEP_SEC_BETWEEN_GEOCODE

\* a failed fetch adds no row and the loop goes on with the next entry of
\* SITES; the loop is left after the last entry only
PageFailureIsolated ==
    /\ (pc = "sites" /\ lastFetch' = "failed") =>
            /\ all_rows' = all_rows
            /\ i' = i + 1
            /\ pc' = "sites"
    /\ (pc = "sites" /\ pc' # "sites") => i = NumSites + 1

\* a lookup or a query that brings no coordinate, the last query of a
\* dropped listing included, leaves both caches and their files as they were
NoGeoLeavesCaches ==
    (pc \in {"loop", "geocode"} /\ latlon' = None) => UNCHANGED cacheVars

\* with any listing that ended DROPPED_NO_GEO taken out of the input, the
\* resolver, asking nothing the run did not ask, gives every other listing
\* the outcome, the coordinate and the enriched record the run gave it, and
\* leaves the caches the run left
SiblingsUnaffected ==
    \A x \in 1..Len(outcomes) :
        outcomes[x].outcome = "DROPPED_NO_GEO" =>
            LET cf == EnrichAll(Without(filtered_rows, x), startGeo, startRev,
                                center_latlon, Up, revAns)
            IN  /\ cf.outcomes = Without(outcomes, x)
                /\ cf.enriched = enriched
                /\ cf.geo = geo_cache
                /\ cf.rev = rev_cache
                /\ cf.asked \subseteq DOMAIN geoAns
                /\ cf.revAsked \subseteq DOMAIN revAns

\* C5: a search page whose fetch fails contributes no listing and the later
\* sources are still processed; a listing none of whose variants resolves
\* is dropped with both caches unchanged, and every other listing ends as
\* it would have without the dropped one in the input.
C5_FailureIsolation ==
    [][/\ PageFailureIsolated
       /\ NoGeoLeavesCaches
       /\ (pc = "loop" /\ pc' = "done") => SiblingsUnaffected]_vars

\* a run that dropped one listing for want of a coordinate and enriched
\* another after it
C5_Witness ==
    /\ pc = "done"
    /\ Len(outcomes) = 2
    /\ outcomes[1].outcome = "DROPPED_NO_GEO"
    /\ outcomes[2].outcome = "ENRICHED"

\* C6 as stated: after every ENRICHED record the reverse cache, in memory
\* and in its file, holds an entry under the record's key.
C6_EnrichedKeyCached ==
    \A j \in 1..Len(outcomes) :
        outcomes[j].outcome = "ENRICHED" =>
            /\ KeyOf(outcomes[j].latlon[1]) \in DOMAIN rev_cache
            /\ KeyOf(outcomes[j].latlon[1]) \in DOMAIN load_json_cache(revFile)

\* C6 amended: for every ENRICHED record, a key that was in the cache was
\* not sent to reverse; an answer of reverse is in the cache and in the file
\* under the key with the name taken from it, the empty name included; when
\* reverse gave no answer the key is in neither and the record's
\* municipality is empty.
C6_ReverseResultCached ==
    \A j \in 1..Len(outcomes) :
        outcomes[j].outcome = "ENRICHED" =>
            LET key == KeyOf(outcomes[j].latlon[1])
                entry == [municipality |-> MunicipalityOf(revAns[key][1])]
            IN  /\ key \in DOMAIN startRev => key \notin DOMAIN revAns
                /\ key \notin DOMAIN startRev => key \in DOMAIN revAns
                /\ (key \in DOMAIN revAns /\ revAns[key] # None) =>
                        /\ key \in DOMAIN rev_cache
                        /\ rev_cache[key] = entry
                        /\ <<key, entry>> \in revFile.items
                /\ (key \in DOMAIN revAns /\ revAns[key] = None) =>
                        /\ key \notin DOMAIN rev_cache
                        /\ key \notin DOMAIN load_json_cache(revFile)
                        /\ \E e \in 1..Len(enriched) :
                              /\ enriched[e].url = outcomes[j].row.url
                              /\ enriched[e].municipality = ""

\* reverse answered with an address that names no municipality, and the
\* empty name is in the cache and in the file
C6_Witness ==
    \E j \in 1..Len(outcomes) :
        /\ outcomes[j].outcome = "ENRICHED"
        /\ KeyOf(outcomes[j].latlon[1]) \in DOMAIN revAns
        /\ revAns[KeyOf(outcomes[j].latlon[1])] = Some(AddrBare)
        /\ <<KeyOf(outcomes[j].latlon[1]), [municipality |-> ""]>> \in revFile.items

\* the cache maps the URL of r and the variant that succeeded to ll
FreshSuccessCached(r, asked, ll) ==
    /\ r.url \in DOMAIN geo_cache
    /\ geo_cache[r.url] = ll
    /\ Last(asked) \in DOMAIN geo_cache
    /\ geo_cache[Last(asked)] = ll

\* C7: after a fresh geocode success the cache maps the record's URL and
\* the variant that succeeded to the coordinate; at every record boundary
\* the cache file holds what the cache in memory holds; an entry, loaded or
\* written, is never changed or removed.
C7_GeoCachePersisted ==
    /\ pc = "loop" => load_json_cache(geoFile) = geo_cache
    /\ Resolving =>
          \A key \in DOMAIN startGeo :
              key \in DOMAIN geo_cache /\ geo_cache[key] = startGeo[key]
    /\ \A j \in 1..Len(outcomes) :
          (outcomes[j].queried # <<>> /\ outcomes[j].latlon # None) =>
              FreshSuccessCached(outcomes[j].row, outcomes[j].queried, outcomes[j].latlon[1])
    /\ (pc \in {"distance", "reverse"} /\ queried # <<>>) =>
          FreshSuccessCached(Cur, queried, latlon[1])

\* a record boundary after a fresh success at a listing's second variant,
\* with entries loaded from the file of an earlier run
C7_Witness ==
    /\ pc = "loop"
    /\ startGeo # EmptyDict
    /\ \E j \in 1..Len(outcomes) :
          /\ Len(outcomes[j].queried) = 2
          /\ outcomes[j].latlon # None

IsPrefix(s, t) == Len(s) <= Len(t) /\ SubSeq(t, 1, Len(s)) = s

\* C9: a record with no cache entry under its URL or variants is queried
\* with its variants in the generated order; the first answer ends the
\* querying and is the record's coordinate; with no answer at all the record
\* ends DROPPED_NO_GEO and is in no output.
C9_VariantOrder ==
    /\ pc = "geocode" =>
          /\ CachedLatLon(Cur, geo_cache) = None
          /\ queried = Take(GeneratedVariants(Cur), k - 1)
          /\ \A n \in 1..Len(queried) : ~geoAns[queried[n]]
    /\ (pc = "distance" /\ queried = <<>>) => CachedLatLon(Cur, geo_cache) = latlon
    /\ \A j \in 1..Len(outcomes) :
          LET o == outcomes[j]
              vs == GeneratedVariants(o.row)
          IN  /\ o.latlon = None <=> o.outcome = "DROPPED_NO_GEO"
              /\ o.queried # <<>> =>
                    /\ IsPrefix(o.queried, vs)
                    /\ \A n \in 1..(Len(o.queried) - 1) : ~geoAns[o.queried[n]]
                    /\ o.latlon # None =>
                          /\ geoAns[Last(o.queried)]
                          /\ o.latlon = Some(PlaceOfQuery(Last(o.queried)))
              /\ o.outcome = "DROPPED_NO_GEO" =>
                    /\ o.queried = vs
                    /\ ~geoAns[Last(o.queried)]
                    /\ \A e \in 1..Len(enriched) : enriched[e].url # o.row.url
                    /\ pc = "done" => o.row.url \notin SnapshotUrls(snapshotFile)
                                      \cup SnapshotUrls(newFile)

\* a listing whose first variant got no answer and whose second did, the
\* third not sent
C9_Witness ==
    \E j \in 1..Len(outcomes) :
        /\ Len(outcomes[j].queried) = 2
        /\ Len(GeneratedVariants(outcomes[j].row)) = 3
        /\ outcomes[j].outcome = "ENRICHED"

\* the coordinate a listing gets from an empty cache and a service that
\* answers the strings of up
FreshLatLon(r, up) ==
    ResolveOne(r, EmptyDict, EmptyDict, center_latlon, up, EmptyDict).latlon

\* C10: in a run that starts from an empty geo cache, a listing resolved
\* after other listings gets the coordinate it gets from an empty cache,
\* whatever the service, in line with its answers of the run, answers to the
\* strings it was not sent.
C10_CacheTransparency ==
    startGeo = EmptyDict =>
        \A j \in 1..Len(outcomes) :
            \A up \in SUBSET Queries :
                (\A q \in DOMAIN geoAns : geoAns[q] <=> q \in up) =>
                    outcomes[j].latlon = FreshLatLon(outcomes[j].row, up)

\* four digits, one space, two uppercase letters
WellFormedPostcode(code) ==
    /\ Len(code) = 7
    /\ \A d \in 1..4 : IsDigit(code[d])
    /\ code[5] = " "
    /\ IsUpper(code[6])
    /\ IsUpper(code[7])

\* C8: every variant built from a postal code (street + postal code + place,
\* postal code + place) carries the postal code as four digits, one space
\* and two uppercase letters, whatever the case in the listing's text.
C8_PostcodeUppercase ==
    (pc = "text" /\ txtOut # None) =>
        LET code == PcOf(txtRow)
            place == PlaceOf(txtRow)
            street == StreetOf(txtRow)
            v2 == norm(code \o <<" ">> \o place \o Ned)
            v1 == norm(street \o <<",", " ">> \o code \o <<" ">> \o place \o Ned)
        IN  /\ (code # <<>> /\ place # <<>>) =>
                    /\ \E n \in 1..Len(txtOut[1]) : txtOut[1][n] = v2
                    /\ WellFormedPostcode(Take(v2, 7))
            /\ (street # <<>> /\ code # <<>> /\ place # <<>>) =>
                    /\ \E n \in 1..Len(txtOut[1]) : txtOut[1][n] = v1
                    /\ WellFormedPostcode(SubSeq(v1, Len(street) + 3, Len(street) + 9))

====
